---- MODULE Spec2Model ----
(***************************************************************************)
(* A model of the integration demo server (src/demo/server.js; an earlier  *)
(* copy of the same server is the second half of src/unnamed/part_000).    *)
(*                                                                         *)
(* The server is one Node.js process: every HTTP handler, fs.watch         *)
(* callback and timer callback runs to completion on the event loop, so    *)
(* each of them is one atomic action here.                                 *)
(*                                                                         *)
(* Text is a sequence of one-character strings.  A JavaScript value held   *)
(* in a Record is tagged: <<"s", chars>> is a string, <<"n", i>> a number. *)
(* A Record (a JavaScript object) is a sequence of [k, v] pairs with       *)
(* distinct keys, in property insertion order.                             *)
(***************************************************************************)
EXTENDS Integers, Sequences, FiniteSets, TLC

VARIABLES
    codec,          \* a RecordSet on its way through a serializer and a parser
    build,          \* which copy of the server runs: "demo" (src/demo/server.js) or "unnamed" (part_000)
    transactions,   \* server.js:166  the in-memory transaction list
    exports,        \* files of the exports/ directory: file name -> content
    topics,         \* server.js:198  own properties of `topics`: name -> log
    subscribers,    \* server.js:199  own properties of `subscribers`: name -> list of connections
    conns,          \* the /api/subscribe connections accepted so far, in arrival order
    delivered,      \* per connection: the messages written to its response
    resp,           \* the response of the HTTP handler that ran last
    files,          \* the watched directories: path -> file
    debounce,       \* server.js:146  the keys of `debounce`
    timers,         \* the pending setTimeout callbacks, with the time left
    output,         \* files of the output/ directory: file name -> content
    inflight,       \* the bridge's HTTP requests that were sent and not yet answered
    crashed,        \* an exception reached the event loop: the process is gone
    nEvents,        \* raw fs.watch events raised so far
    hist,           \* history, per path: raw events raised, debounce flags set
    handled         \* history: the settle timers that fired, and what they did

storeVars == <<transactions, exports>>
busVars   == <<topics, subscribers, conns, delivered>>
watchVars == <<files, debounce, timers, nEvents, hist, handled>>
pipeVars  == <<output, inflight, crashed>>
vars      == <<build, codec, transactions, exports, topics, subscribers, conns, delivered, resp,
               files, debounce, timers, output, inflight, crashed, nEvents, hist, handled>>

---------------------------------------------------------------------------
(* Bounds of the model *)

MaxTxns    == 2    \* submissions accepted
MaxExports == 1    \* files in the exports/ directory
MaxLog     == 2    \* messages published to one topic
MaxConns   == 2    \* /api/subscribe requests made
MaxEvents  == 3    \* raw fs.watch events raised
MaxDrops   == 1    \* files dropped into the watched directories, where the handlers are exercised
MaxRecords == 2    \* records of a RecordSet given to the codec

---------------------------------------------------------------------------
(* Text and values *)

StrV(cs) == <<"s", cs>>
NumV(n)  == <<"n", n>>

Digit(d) == <<"0","1","2","3","4","5","6","7","8","9">>[d + 1]

RECURSIVE NumChars(_)
\* String(n) for a number n >= 0
NumChars(n) == IF n < 10 THEN <<Digit(n)>> ELSE NumChars(n \div 10) \o <<Digit(n % 10)>>

\* new Date().toISOString() at wall-clock reading t
IsoString(t) == <<"T">> \o NumChars(t)

\* the wall-clock readings (Date) tried by the transaction store, where two
\* exports in the same millisecond share a file name, and by a publish
Clock == {0, 1}
PublishClock == {0}

kId         == <<"i","d">>
kTxnId      == <<"t","x","n","_","i","d">>
kAmount     == <<"a","m","o","u","n","t">>
kReceivedAt == <<"r","e","c","e","i","v","e","d","_","a","t">>

---------------------------------------------------------------------------
(* Records: JavaScript objects with string keys *)

Pair(key, val) == [k |-> key, v |-> val]

Keys(r) == [i \in 1..Len(r) |-> r[i].k]

HasKey(r, key) == \E i \in 1..Len(r) : r[i].k = key

Get(r, key) == r[CHOOSE i \in 1..Len(r) : r[i].k = key].v

\* obj[key] = val: an existing property keeps its position
SetKey(r, key, val) ==
    IF HasKey(r, key)
    THEN [i \in 1..Len(r) |-> IF r[i].k = key THEN Pair(key, val) ELSE r[i]]
    ELSE Append(r, Pair(key, val))

RECURSIVE Spread(_, _)
\* { ...obj, ...src }
Spread(obj, src) ==
    IF src = <<>> THEN obj
    ELSE Spread(SetKey(obj, Head(src).k, Head(src).v), Tail(src))

---------------------------------------------------------------------------
(* Record Codec: serializers *)

\* String(v)
ToStr(val) == IF val[1] = "n" THEN NumChars(val[2]) ELSE val[2]

RECURSIVE Join(_, _)
\* parts.join(sep)
Join(parts, sep) ==
    IF parts = <<>> THEN <<>>
    ELSE IF Len(parts) = 1 THEN parts[1]
    ELSE parts[1] \o sep \o Join(Tail(parts), sep)

RECURSIVE Concat(_)
Concat(parts) == IF parts = <<>> THEN <<>> ELSE Head(parts) \o Concat(Tail(parts))

RECURSIVE Replace(_, _, _)
\* s.replace(/ch/g, rep) for a one-character pattern
Replace(s, ch, rep) ==
    IF s = <<>> THEN <<>>
    ELSE (IF Head(s) = ch THEN rep ELSE <<Head(s)>>) \o Replace(Tail(s), ch, rep)

\* server.js:61
escXml(s) ==
    Replace(Replace(Replace(s, "&", <<"&","a","m","p",";">>),
                    "<", <<"&","l","t",";">>),
            ">", <<"&","g","t",";">>)

\* r[h] ?? '' rendered by join
Cell(r, h) == IF HasKey(r, h) THEN ToStr(Get(r, h)) ELSE <<>>

\* server.js:42-48
recordsToCsv(records) ==
    IF Len(records) = 0 THEN <<>>
    ELSE LET headers == Keys(records[1])
             row(r)  == Join([i \in 1..Len(headers) |-> Cell(r, headers[i])], <<",">>)
             lines   == <<Join(headers, <<",">>)>> \o [i \in 1..Len(records) |-> row(records[i])]
         IN  Join(lines, <<"\n">>)

XmlDecl == <<"<","?","x","m","l"," ","v","e","r","s","i","o","n","=","\"","1",".","0","\""," ","e","n","c","o","d","i","n","g","=","\"","U","T","F","-","8","\"","?",">","\n">>
rootTag == <<"t","r","a","n","s","a","c","t","i","o","n","s">>
itemTag == <<"t","r","a","n","s","a","c","t","i","o","n">>

OpenTag(name)  == <<"<">> \o name \o <<">">>
CloseTag(name) == <<"<","/">> \o name \o <<">">>

\* server.js:50-59, with the default rootTag and itemTag
recordsToXml(records) ==
    LET field(p) == <<" "," "," "," ">> \o OpenTag(p.k) \o escXml(ToStr(p.v)) \o CloseTag(p.k) \o <<"\n">>
        item(r)  == <<" "," ">> \o OpenTag(itemTag) \o <<"\n">>
                    \o Concat([i \in 1..Len(r) |-> field(r[i])])
                    \o <<" "," ">> \o CloseTag(itemTag) \o <<"\n">>
    IN  XmlDecl \o OpenTag(rootTag) \o <<"\n">>
        \o Concat([i \in 1..Len(records) |-> item(records[i])])
        \o CloseTag(rootTag)

\* File contents.  CSV and XML are text; JSON text is kept as the value it
\* denotes (JSON.stringify and JSON.parse are the runtime's, not the server's).
Text(cs)     == <<"text", cs>>
JsonText(v)  == <<"json", v>>
Arr(elems)   == <<"arr", elems>>
Obj(r)       == <<"obj", r>>
ObjArr(recs) == Arr([i \in 1..Len(recs) |-> Obj(recs[i])])

---------------------------------------------------------------------------
(* Record Codec: parsers *)

Whitespace == {" ", "\t", "\n", "\r"}

RECURSIVE TrimStart(_)
TrimStart(s) ==
    IF s # <<>> /\ Head(s) \in Whitespace THEN TrimStart(Tail(s)) ELSE s

RECURSIVE TrimEnd(_)
TrimEnd(s) ==
    IF s # <<>> /\ s[Len(s)] \in Whitespace THEN TrimEnd(SubSeq(s, 1, Len(s) - 1)) ELSE s

\* s.trim()
Trim(s) == TrimEnd(TrimStart(s))

RECURSIVE SplitFrom(_, _, _)
\* the pieces of s from position i on, cut at every ch; cur is the piece begun
SplitFrom(s, ch, i) ==
    IF i > Len(s) THEN <<<<>>>>
    ELSE LET rest == SplitFrom(s, ch, i + 1)
         IN  IF s[i] = ch THEN <<<<>>>> \o rest
             ELSE <<<<s[i]>>  \o Head(rest)>> \o Tail(rest)

\* s.split(ch)
Split(s, ch) == SplitFrom(s, ch, 1)

\* csv.split(/\r?\n/) in server.js:31, csv.split('\n') in part_000:204
SplitLines(s, b) ==
    LET raw == Split(s, "\n")
        cut(l) == IF l # <<>> /\ l[Len(l)] = "\r" THEN SubSeq(l, 1, Len(l) - 1) ELSE l
    IN  IF b = "demo"
        THEN [i \in 1..Len(raw) |-> IF i < Len(raw) THEN cut(raw[i]) ELSE raw[i]]
        ELSE raw

MapTrim(parts) == [i \in 1..Len(parts) |-> Trim(parts[i])]

\* .filter(Boolean) on strings
NonEmpty(parts) == SelectSeq(parts, LAMBDA l : l # <<>>)

RECURSIVE ZipFrom(_, _, _, _)
\* headers.forEach((h, i) => obj[h] = vals[i] || '')
ZipFrom(headers, vals, i, obj) ==
    IF i > Len(headers) THEN obj
    ELSE ZipFrom(headers, vals, i + 1,
                 SetKey(obj, headers[i], StrV(IF i <= Len(vals) THEN vals[i] ELSE <<>>)))

\* server.js:30-40
csvToRecords(csv, b) ==
    LET lines == NonEmpty(MapTrim(SplitLines(Trim(csv), b)))
    IN  IF Len(lines) < 2 THEN <<>>
        ELSE LET headers == MapTrim(Split(lines[1], ","))
             IN  [n \in 1..(Len(lines) - 1) |->
                     ZipFrom(headers, MapTrim(Split(lines[n + 1], ",")), 1, <<>>)]

Letters ==
    {"a","b","c","d","e","f","g","h","i","j","k","l","m",
     "n","o","p","q","r","s","t","u","v","w","x","y","z"}
Capitals ==
    {"A","B","C","D","E","F","G","H","I","J","K","L","M",
     "N","O","P","Q","R","S","T","U","V","W","X","Y","Z"}
Digits == {"0","1","2","3","4","5","6","7","8","9"}

\* \w
WordChars == Letters \cup Capitals \cup Digits \cup {"_"}

LowerOf ==
    [c \in Capitals |->
        CASE c = "A" -> "a" [] c = "B" -> "b" [] c = "C" -> "c" [] c = "D" -> "d"
          [] c = "E" -> "e" [] c = "F" -> "f" [] c = "G" -> "g" [] c = "H" -> "h"
          [] c = "I" -> "i" [] c = "J" -> "j" [] c = "K" -> "k" [] c = "L" -> "l"
          [] c = "M" -> "m" [] c = "N" -> "n" [] c = "O" -> "o" [] c = "P" -> "p"
          [] c = "Q" -> "q" [] c = "R" -> "r" [] c = "S" -> "s" [] c = "T" -> "t"
          [] c = "U" -> "u" [] c = "V" -> "v" [] c = "W" -> "w" [] c = "X" -> "x"
          [] c = "Y" -> "y" [] c = "Z" -> "z"]

\* s.toLowerCase()
ToLower(s) == [i \in 1..Len(s) |-> IF s[i] \in Capitals THEN LowerOf[s[i]] ELSE s[i]]

\* pat occurs in s at position i; ci: ignoring case
MatchAt(s, i, pat, ci) ==
    /\ i + Len(pat) - 1 <= Len(s)
    /\ LET piece == SubSeq(s, i, i + Len(pat) - 1)
       IN  IF ci THEN ToLower(piece) = ToLower(pat) ELSE piece = pat

RECURSIVE Find(_, _, _, _)
\* the first position >= i where pat occurs in s, 0 when there is none
Find(s, i, pat, ci) ==
    IF i + Len(pat) - 1 > Len(s) THEN 0
    ELSE IF MatchAt(s, i, pat, ci) THEN i
    ELSE Find(s, i + 1, pat, ci)

RECURSIVE WordEnd(_, _)
\* the end of the longest run of \w characters of s that starts at i
WordEnd(s, i) ==
    IF i <= Len(s) /\ s[i] \in WordChars THEN WordEnd(s, i + 1) ELSE i - 1

RECURSIVE Fields(_, _, _)
\* the loop of server.js:69-71 over the text of one item, from position i
Fields(s, i, obj) ==
    IF i > Len(s) THEN obj
    ELSE IF s[i] # "<" THEN Fields(s, i + 1, obj)
    ELSE LET e == WordEnd(s, i + 1)
         IN  IF e < i + 1 \/ e + 1 > Len(s) \/ s[e + 1] # ">"
             THEN Fields(s, i + 1, obj)
             ELSE LET name == SubSeq(s, i + 1, e)
                      close == Find(s, e + 2, CloseTag(name), FALSE)
                  IN  IF close = 0 THEN Fields(s, i + 1, obj)
                      ELSE Fields(s, close + Len(name) + 3,
                                  SetKey(obj, name, StrV(Trim(SubSeq(s, e + 2, close - 1)))))

RECURSIVE Items(_, _)
\* the loop of server.js:65-73 from position i (the regex's lastIndex)
Items(xml, i) ==
    LET open == Find(xml, i, OpenTag(itemTag), TRUE)
    IN  IF open = 0 THEN <<>>
        ELSE LET from  == open + Len(itemTag) + 2
                 close == Find(xml, from, CloseTag(itemTag), TRUE)
             IN  IF close = 0 THEN <<>>
                 ELSE <<Fields(SubSeq(xml, from, close - 1), 1, <<>>)>>
                      \o Items(xml, close + Len(itemTag) + 3)

\* server.js:63-75
xmlToRecords(xml) == Items(xml, 1)

---------------------------------------------------------------------------
(* HTTP responses: status code, the field names of the JSON body, and the
   values the body carries *)

NoResp ==
    [op |-> "none", code |-> 0, fields |-> {}, topic |-> "", txns |-> <<>>, msgs |-> <<>>,
     offset |-> -1, count |-> -1, file |-> <<>>, summary |-> {}]

\* Express answers a handler that threw with 500 and no JSON body
ErrorResp(op) == [NoResp EXCEPT !.op = op, !.code = 500]

---------------------------------------------------------------------------
(* 3. REST API: Transaction Store *)

Bodies ==
    { <<Pair(kTxnId, StrV(<<"T","1">>)), Pair(kAmount, StrV(<<"5","0">>))>>,
      <<Pair(kId, NumV(7)), Pair(kAmount, StrV(<<"5","0">>))>> }

\* bodies that carry a field of the name the server stamps
StampedBodies ==
    { <<Pair(kTxnId, StrV(<<"T","2">>)), Pair(kReceivedAt, StrV(<<"n","o","o","n">>))>>,
      <<Pair(kReceivedAt, StrV(<<>>)), Pair(kAmount, StrV(<<"5","0">>))>> }

\* server.js:169  { id: transactions.length + 1, ...req.body, received_at: ... }
NewTxn(n, body, ts) ==
    SetKey(Spread(<<Pair(kId, NumV(n + 1))>>, body), kReceivedAt, StrV(IsoString(ts)))

\* variant: a submission is also put on a topic of the bus
PostTransaction_Announces(body, ts) ==
    /\ ~crashed
    /\ Len(transactions) < MaxTxns
    /\ LET txn == NewTxn(Len(transactions), body, ts)
       IN  /\ transactions' = Append(transactions, txn)
           /\ topics' = [t \in DOMAIN topics \cup {"transactions"} |->
                            IF t = "transactions" THEN <<txn>> ELSE topics[t]]
           /\ resp' = [NoResp EXCEPT !.op = "submit", !.code = 200,
                                     !.fields = {"status", "message", "transaction"},
                                     !.txns = <<txn>>]
    /\ UNCHANGED <<build, codec, exports, subscribers, conns, delivered, watchVars, pipeVars>>

\* server.js:168-173
PostTransaction(body, ts) ==
    /\ ~crashed
    /\ Len(transactions) < MaxTxns
    /\ LET txn == NewTxn(Len(transactions), body, ts)
       IN  /\ transactions' = Append(transactions, txn)
           /\ resp' = [NoResp EXCEPT !.op = "submit", !.code = 200,
                                     !.fields = {"status", "message", "transaction"},
                                     !.txns = <<txn>>]
    /\ UNCHANGED <<build, codec, exports, busVars, watchVars, pipeVars>>

\* server.js:175-178
GetTransactions ==
    /\ ~crashed
    /\ resp' = [NoResp EXCEPT !.op = "list", !.code = 200,
                              !.fields = {"count", "transactions"},
                              !.count = Len(transactions), !.txns = transactions]
    /\ UNCHANGED <<build, codec, storeVars, busVars, watchVars, pipeVars>>

\* query strings that give the parameter twice (?format=xyz&format=xyz):
\* req.query.format is then an array, which has no toLowerCase, and
\* server.js:182 throws
ListFormats == {"xyz&format=xyz"}

\* the ?format= query values tried; "" is a request without the parameter
QueryFormats == {"", "csv", "json", "xml", "XML", "xyz"} \cup ListFormats

\* server.js:182  (req.query.format || 'json').toLowerCase()
ExportFormat(q) == IF q = "" THEN "json" ELSE IF q = "XML" THEN "xml" ELSE q

\* variant: only the newest transaction is exported
ExportContent_Newest(format, txns) ==
    LET last == IF txns = <<>> THEN <<>> ELSE <<txns[Len(txns)]>>
    IN  IF format = "json" THEN JsonText(ObjArr(last))
        ELSE IF format = "csv" THEN Text(recordsToCsv(last))
        ELSE Text(recordsToXml(last))

\* server.js:188-190
ExportContent(format, txns) ==
    IF format = "json" THEN JsonText(ObjArr(txns))
    ELSE IF format = "csv" THEN Text(recordsToCsv(txns))
    ELSE Text(recordsToXml(txns))

\* fs.writeFileSync(path, content) into a directory held as name -> content
WriteFile(dir, name, content) ==
    [f \in DOMAIN dir \cup {name} |-> IF f = name THEN content ELSE dir[f]]

\* server.js:181-195
PostExport(q, ts) ==
    LET format == ExportFormat(q)
    IN  /\ ~crashed
        /\ IF q \in ListFormats
           THEN /\ resp' = ErrorResp("export")
                /\ UNCHANGED <<build, codec, storeVars, busVars, watchVars, pipeVars>>
           ELSE IF format \notin {"csv", "json", "xml"}
           THEN /\ resp' = [NoResp EXCEPT !.op = "export", !.code = 400, !.fields = {"error"}]
                /\ UNCHANGED <<build, codec, storeVars, busVars, watchVars, pipeVars>>
           ELSE LET filename == <<"export-", ts, format>>
                IN  /\ filename \in DOMAIN exports \/ Cardinality(DOMAIN exports) < MaxExports
                    /\ exports' = WriteFile(exports, filename, ExportContent(format, transactions))
                    /\ resp' = [NoResp EXCEPT !.op = "export", !.code = 200,
                                              !.fields = {"status", "file", "count"},
                                              !.file = filename,
                                              !.count = Len(transactions)]
                    /\ UNCHANGED <<build, codec, transactions, busVars, watchVars, pipeVars>>

---------------------------------------------------------------------------
(* 4. Kafka-style Pub/Sub *)

\* `topics` and `subscribers` are plain objects ({}), so obj[name] also finds
\* what every object inherits from Object.prototype: topics["constructor"] is
\* the function Object, which is truthy, has length 1 and has neither push
\* nor forEach.
InheritedNames == {"constructor"}

TopicNames == {"orders", "file-transforms"} \cup InheritedNames

\* the request bodies tried; a payload is opaque to the server
Payloads == {<<"opaque", "p1">>}

\* !obj[name] is false
Truthy(obj, name) == name \in DOMAIN obj \/ name \in InheritedNames

\* variant: obj[name] = [] whether or not the list exists
EnsureList_Fresh(obj, name) ==
    [t \in DOMAIN obj \cup {name} |-> IF t = name THEN <<>> ELSE obj[t]]

\* if (!obj[name]) obj[name] = []
EnsureList(obj, name) ==
    IF Truthy(obj, name) THEN obj
    ELSE [t \in DOMAIN obj \cup {name} |-> IF t = name THEN <<>> ELSE obj[t]]

\* variant: every connection ever accepted is notified
SubscribersOf_All(subs, topic) == [c \in 1..Len(conns) |-> c]

\* (subscribers[topic] || [])
SubscribersOf(subs, topic) == IF topic \in DOMAIN subs THEN subs[topic] ELSE <<>>

\* how many times connection c is in the list subs
Occurrences(subs, c) == Cardinality({i \in 1..Len(subs) : subs[i] = c})

\* server.js:206-208  every res of the list gets one res.write of msg
Notify(subs, dl, msg) ==
    [c \in DOMAIN dl |-> dl[c] \o [i \in 1..Occurrences(subs, c) |-> msg]]

NewMessage_OneBased(log, message, ts) ==
    [offset |-> Len(log) + 1, timestamp |-> IsoString(ts), data |-> message]

\* server.js:203
NewMessage(log, message, ts) ==
    [offset |-> Len(log), timestamp |-> IsoString(ts), data |-> message]

\* server.js:201-210  the state after publishToTopic(topic, message) and the
\* message it returns; ok is FALSE when it throws, which it does before
\* changing anything
publishToTopic(topic, message, ts) ==
    IF topic \in InheritedNames
    THEN [ok |-> FALSE, topics |-> topics, delivered |-> delivered, msg |-> <<>>]
    ELSE LET tps == EnsureList(topics, topic)
             msg == NewMessage(tps[topic], message, ts)
         IN  [ok        |-> TRUE,
              topics    |-> [tps EXCEPT ![topic] = Append(@, msg)],
              delivered |-> Notify(SubscribersOf(subscribers, topic), delivered, msg),
              msg       |-> msg]

\* the log of a topic, empty while the topic does not exist
Log(tps, topic) == IF topic \in DOMAIN tps THEN tps[topic] ELSE <<>>

\* server.js:212-216
PostPublish(topic, message, ts) ==
    /\ ~crashed
    /\ Len(Log(topics, topic)) < MaxLog
    /\ LET r == publishToTopic(topic, message, ts)
       IN  IF r.ok
           THEN /\ topics' = r.topics
                /\ delivered' = r.delivered
                /\ resp' = [NoResp EXCEPT !.op = "publish", !.code = 200,
                                          !.fields = {"status", "topic", "offset"},
                                          !.topic = topic, !.offset = r.msg.offset]
           ELSE /\ resp' = ErrorResp("publish")
                /\ UNCHANGED <<topics, delivered>>
    /\ UNCHANGED <<build, codec, storeVars, subscribers, conns, watchVars, pipeVars>>

\* the Accept headers tried
Accepts == {"text/event-stream", "text/event-stream, */*", "*/*"}

\* server.js:224
Mode(accept) == IF accept = "text/event-stream" THEN "sse" ELSE "poll"

\* server.js:232  subscribers[topic].push(res)
AddSubscriber(subs, topic, c) == [subs EXCEPT ![topic] = Append(@, c)]

RemoveSubscriber_Keeps(subs, topic, c) == subs

\* server.js:234  subscribers[topic].filter(s => s !== res)
RemoveSubscriber(subs, topic, c) ==
    [subs EXCEPT ![topic] = SelectSeq(@, LAMBDA s : s # c)]

Replay_Nothing(log) == <<>>

\* server.js:231  topics[topic].forEach(msg => res.write(...))
Replay(log) == log

Register_Always(subs, topic, c, mode) == AddSubscriber(subs, topic, c)

\* server.js:224-240  only the streaming branch pushes res
Register(subs, topic, c, mode) ==
    IF mode = "sse" THEN AddSubscriber(subs, topic, c) ELSE subs

\* server.js:218-241  GET /api/subscribe/:topic on a new connection
GetSubscribe(topic, accept) ==
    /\ ~crashed
    /\ Len(conns) < MaxConns
    /\ LET c == Len(conns) + 1
           mode == Mode(accept)
           tps == EnsureList(topics, topic)
           sbs == EnsureList(subscribers, topic)
       IN  /\ topics' = tps
           /\ IF topic \in InheritedNames
              THEN \* sse: topics[topic].forEach throws after the headers went
                   \* out; poll: JSON leaves the function-valued field out
                   /\ conns' = Append(conns, [topic |-> topic, mode |-> mode, open |-> FALSE])
                   /\ delivered' = Append(delivered, <<>>)
                   /\ subscribers' = sbs
                   /\ resp' = IF mode = "sse" THEN ErrorResp("subscribe")
                              ELSE [NoResp EXCEPT !.op = "subscribe", !.code = 200,
                                                  !.fields = {"topic"}, !.topic = topic]
              ELSE IF mode = "sse"
              THEN /\ conns' = Append(conns, [topic |-> topic, mode |-> mode, open |-> TRUE])
                   /\ delivered' = Append(delivered, Replay(tps[topic]))
                   /\ subscribers' = Register(sbs, topic, c, mode)
                   /\ resp' = [NoResp EXCEPT !.op = "stream", !.code = 200, !.topic = topic]
              ELSE /\ conns' = Append(conns, [topic |-> topic, mode |-> mode, open |-> FALSE])
                   /\ delivered' = Append(delivered, tps[topic])
                   /\ subscribers' = Register(sbs, topic, c, mode)
                   /\ resp' = [NoResp EXCEPT !.op = "subscribe", !.code = 200,
                                             !.fields = {"topic", "messages"},
                                             !.topic = topic, !.msgs = tps[topic]]
    /\ UNCHANGED <<build, codec, storeVars, watchVars, pipeVars>>

\* server.js:233-236  the 'close' event of a streaming connection
OnClose(c) ==
    /\ ~crashed
    /\ c \in 1..Len(conns)
    /\ conns[c].mode = "sse"
    /\ conns[c].open
    /\ subscribers' = RemoveSubscriber(subscribers, conns[c].topic, c)
    /\ conns' = [conns EXCEPT ![c].open = FALSE]
    /\ UNCHANGED <<build, codec, storeVars, topics, delivered, resp, watchVars, pipeVars>>

\* server.js:243-247
GetTopics ==
    /\ ~crashed
    /\ resp' = [NoResp EXCEPT !.op = "topics", !.code = 200,
                              !.summary = {<<t, Len(topics[t])>> : t \in DOMAIN topics}]
    /\ UNCHANGED <<build, codec, storeVars, busVars, watchVars, pipeVars>>

---------------------------------------------------------------------------
(* Transform Pipeline and API bridge: what a handler does with one file *)

dotCsv  == <<".","c","s","v">>
dotJson == <<".","j","s","o","n">>
dotXml  == <<".","x","m","l">>

Null == <<"null">>

\* the result of an expression that may throw
Value(v) == [threw |-> FALSE, val |-> v]
Throws   == [threw |-> TRUE, val |-> Null]

\* JSON.parse(content): a file that holds no valid JSON text throws
JsonParse(content) == IF content[1] = "json" THEN Value(content[2]) ELSE Throws

\* server.js:77-82  parseFile(content, ext)
parseFile(content, ext, b) ==
    IF ext = dotCsv THEN Value(ObjArr(csvToRecords(content[2], b)))
    ELSE IF ext = dotJson THEN JsonParse(content)
    ELSE IF ext = dotXml THEN Value(ObjArr(xmlToRecords(content[2])))
    ELSE Value(Null)

\* !v  for a parsed value
Falsy(v) ==
    \/ v[1] = "null"
    \/ v[1] = "s" /\ v[2] = <<>>
    \/ v[1] = "n" /\ v[2] = 0

kLength == <<"l","e","n","g","t","h">>

\* v.length, where undefined is rendered as null
LengthOf(v) ==
    IF v[1] \in {"arr", "s"} THEN NumV(Len(v[2]))
    ELSE IF v[1] = "obj" /\ HasKey(v[2], kLength) THEN Get(v[2], kLength)
    ELSE Null

\* variant: only a missing value counts as no records
NoRecords_NullOnly(records) == Falsy(records)

\* server.js:98  !records || !records.length
NoRecords(records) == Falsy(records) \/ Falsy(LengthOf(records))

\* an array whose elements are all plain objects
IsRecordArray(v) == v[1] = "arr" /\ \A i \in 1..Len(v[2]) : v[2][i][1] = "obj"

Records(v) == [i \in 1..Len(v[2]) |-> v[2][i][2]]

\* server.js:105-107  the content written for one target format; the
\* serializers throw on anything that is not an array of objects
Convert(records, target) ==
    IF target = dotJson THEN Value(JsonText(records))
    ELSE IF ~IsRecordArray(records) THEN Throws
    ELSE IF target = dotCsv THEN Value(Text(recordsToCsv(Records(records))))
    ELSE Value(Text(recordsToXml(Records(records))))

\* server.js:102  the two targets of a source format, in the order written
Targets(ext) ==
    IF ext = dotCsv THEN <<dotJson, dotXml>>
    ELSE IF ext = dotJson THEN <<dotCsv, dotXml>>
    ELSE <<dotCsv, dotJson>>

\* server.js:88 and 120  the extensions a handler goes on with
Supported(ext) == ext \in {dotCsv, dotJson, dotXml}

\* server.js:86  path.extname(filePath).toLowerCase()
ExtOf(name) == ToLower(name.ext)

\* server.js:87  path.basename(filePath, ext): the suffix is cut only when it
\* is spelled exactly as the lower-cased extension
BaseName(name) == IF name.ext = ExtOf(name) THEN name.stem ELSE name.stem \o name.ext

\* server.js:114  the notification published for a transformed file
TransformNote(name, records, ts) ==
    <<"transform", [source |-> name.stem \o name.ext,
                    recordCount |-> LengthOf(records),
                    timestamp |-> IsoString(ts)]>>

\* what the file system does to the handler's calls: nothing, or the read
\* fails, or the write of the first or of the second output fails
IoFaults == {"none", "read", "write1", "write2"}

\* the part of the state a handler can change
Effect(out, tps, dl, reqs, dead) ==
    [output |-> out, topics |-> tps, delivered |-> dl, inflight |-> reqs, crashed |-> dead]

NoEffect == Effect(output, topics, delivered, inflight, FALSE)

\* an exception nobody catches, after the outputs written so far
Crash(out) == Effect(out, topics, delivered, inflight, TRUE)

\* server.js:104-109  one pass of the conversion loop
WriteTarget(out, name, records, target) ==
    WriteFile(out, BaseName(name) \o target, Convert(records, target).val)

\* variant: the notification goes out before the outputs are written
handleFileTransform_NotifiesFirst(name, content, io, ts) ==
    LET ext == ExtOf(name)
        parsed == parseFile(content, ext, build)
        records == parsed.val
        t1 == Targets(ext)[1]
        t2 == Targets(ext)[2]
        out1 == WriteTarget(output, name, records, t1)
        out2 == WriteTarget(out1, name, records, t2)
        pub == publishToTopic("file-transforms", TransformNote(name, records, ts), ts)
    IN  IF ~Supported(ext) THEN NoEffect
        ELSE IF io = "read" THEN Crash(output)
        ELSE IF parsed.threw THEN NoEffect
        ELSE IF NoRecords(records) THEN NoEffect
        ELSE IF Convert(records, t1).threw \/ io = "write1"
             THEN Effect(output, pub.topics, pub.delivered, inflight, TRUE)
        ELSE IF Convert(records, t2).threw \/ io = "write2"
             THEN Effect(out1, pub.topics, pub.delivered, inflight, TRUE)
        ELSE Effect(out2, pub.topics, pub.delivered, inflight, FALSE)

\* server.js:85-116
handleFileTransform(name, content, io, ts) ==
    LET ext == ExtOf(name)
        parsed == parseFile(content, ext, build)
        records == parsed.val
        t1 == Targets(ext)[1]
        t2 == Targets(ext)[2]
        out1 == WriteTarget(output, name, records, t1)
        out2 == WriteTarget(out1, name, records, t2)
        pub == publishToTopic("file-transforms", TransformNote(name, records, ts), ts)
    IN  IF ~Supported(ext) THEN NoEffect
        ELSE IF io = "read" THEN Crash(output)
        ELSE IF parsed.threw THEN NoEffect
        ELSE IF NoRecords(records) THEN NoEffect
        ELSE IF Convert(records, t1).threw \/ io = "write1" THEN Crash(output)
        ELSE IF Convert(records, t2).threw \/ io = "write2" THEN Crash(out1)
        ELSE Effect(out2, pub.topics, pub.delivered, inflight, FALSE)

\* variant: the loop stops after the first record
Requests_FirstOnly(name, records) ==
    <<[source |-> name, n |-> 1, body |-> records[2][1]]>>

\* server.js:129-141  the POST requests sent for the records of one file
Requests(name, records) ==
    [i \in 1..Len(records[2]) |-> [source |-> name, n |-> i, body |-> records[2][i]]]

\* server.js:118-142
handleApiBridge(name, content, io) ==
    LET ext == ExtOf(name)
        parsed == parseFile(content, ext, build)
        records == parsed.val
    IN  IF ~Supported(ext) THEN NoEffect
        ELSE IF io = "read" THEN Crash(output)
        ELSE IF parsed.threw THEN NoEffect
        ELSE IF NoRecords(records) THEN NoEffect
        ELSE IF records[1] # "arr" THEN Crash(output)
        ELSE Effect(output, topics, delivered, inflight \o Requests(name, records), FALSE)

---------------------------------------------------------------------------
(* Directory Watcher *)

\* server.js:162-163  the watched directories and their handlers
Dirs == {"input", "api-bridge"}

\* sample file contents
csvTwo      == <<"a",",","b","\n","1",",","2","\n","3",",","4">>
csvOneAndAHalf == SubSeq(csvTwo, 1, 9)
csvHeader   == SubSeq(csvTwo, 1, 4)
sampleRecord == <<Pair(<<"a">>, StrV(<<"1">>))>>
jsonOne     == JsonText(ObjArr(<<sampleRecord>>))
jsonEmpty   == JsonText(Arr(<<>>))
jsonNull    == JsonText(Null)
jsonHole    == JsonText(Arr(<<Null>>))
jsonString  == JsonText(StrV(<<"a">>))
jsonCut     == Text(<<"[","{">>)
xmlOne      == Text(recordsToXml(<<sampleRecord>>))
xmlNone     == Text(recordsToXml(<<>>))
xmlCut      == Text(SubSeq(recordsToXml(<<sampleRecord>>), 1, 60))

FileName(stem, ext) == [stem |-> stem, ext |-> ext]

\* a file somebody writes: where, its name, what it holds while the writer is
\* still writing, and what it holds when the writer is done
Drop(dir, stem, ext, partial, full) ==
    [dir |-> dir, name |-> FileName(stem, ext), partial |-> partial, full |-> full]

\* the files dropped to exercise the watcher's timing
WatchDrops == { Drop("input", <<"t">>, dotCsv, Text(csvOneAndAHalf), Text(csvTwo)) }

\* the files dropped to exercise the transform handler
PipeDrops ==
    { Drop("input", <<"t">>, dotCsv, Text(csvOneAndAHalf), Text(csvTwo)),
      Drop("input", <<"h">>, dotCsv, Text(<<>>), Text(csvHeader)),
      Drop("input", <<"u">>, <<".","C","S","V">>, Text(csvTwo), Text(csvTwo)),
      Drop("input", <<"j">>, dotJson, jsonCut, jsonOne),
      Drop("input", <<"e">>, dotJson, jsonCut, jsonEmpty),
      Drop("input", <<"n">>, dotJson, jsonNull, jsonNull),
      Drop("input", <<"o">>, dotJson, jsonHole, jsonHole),
      Drop("input", <<"s">>, dotJson, jsonString, jsonString),
      Drop("input", <<"x">>, dotXml, xmlCut, xmlOne),
      Drop("input", <<"z">>, dotXml, xmlNone, xmlNone),
      Drop("input", <<"r">>, <<".","t","x","t">>, Text(<<"h","i">>), Text(<<"h","i">>)),
      Drop("input", <<".","c","s","v">>, <<>>, Text(csvTwo), Text(csvTwo)) }

\* the files dropped to exercise the bridge
BridgeDrops ==
    { Drop("api-bridge", <<"t">>, dotCsv, Text(csvOneAndAHalf), Text(csvTwo)),
      Drop("api-bridge", <<"j">>, dotJson, jsonCut, jsonOne),
      Drop("api-bridge", <<"e">>, dotJson, jsonEmpty, jsonEmpty),
      Drop("api-bridge", <<"o">>, dotJson, jsonHole, jsonHole),
      Drop("api-bridge", <<"s">>, dotJson, jsonString, jsonString),
      Drop("api-bridge", <<"r">>, <<".","t","x","t">>, Text(<<"h","i">>), Text(<<"h","i">>)) }

\* one file of the same name in each watched directory
TwinDrops ==
    {d \in PipeDrops \cup BridgeDrops : d.name = FileName(<<"t">>, dotCsv)}

\* server.js:151  path.join(dir, filename)
PathOf(dir, name) == <<dir, name>>

Exists(p)    == p \in DOMAIN files /\ files[p].kind # "gone"
\* server.js:157  fs.existsSync(filePath) && fs.statSync(filePath).isFile()
IsFile(p)    == p \in DOMAIN files /\ files[p].kind = "file"
GenOf(p)     == IF p \in DOMAIN files THEN files[p].gen ELSE 0
KindOf(p)    == IF p \in DOMAIN files THEN files[p].kind ELSE "gone"

\* variant: only fs.existsSync is asked
Dispatch_Exists(p) == Exists(p)

\* server.js:157  the settle timer calls the handler
Dispatch(p)  == IsFile(p)

Put(p, f) == [q \in DOMAIN files \cup {p} |-> IF q = p THEN f ELSE files[q]]

NoHist == [raised |-> 0, flagged |-> 0]
HistOf(h, p) == IF p \in DOMAIN h THEN h[p] ELSE NoHist
Note(h, p, r) == [q \in DOMAIN h \cup {p} |-> IF q = p THEN r ELSE h[q]]

\* server.js:155 and part_000:327  how long a path's flag stays set
FlagWindow(b)  == IF b = "demo" THEN 1000 ELSE 500
\* variant: the watcher waits longer than the flag stays set
SettleDelay_Long(b) == FlagWindow(b) + 200

\* server.js:158 and part_000:330  how long the watcher waits for the writer
SettleDelay(b) == IF b = "demo" THEN 300 ELSE 200

\* server.js:150 and part_000:322  the event types the callback goes on with
Watched(event, b) == IF b = "demo" THEN event \in {"rename", "change"} ELSE event = "rename"

EventTypes == {"rename", "change"}

\* variant: the flag is looked up by file name, whatever the directory
Flagged_ByName(db, key) == \E k \in db : k[2] = key[2]

\* variant: no event is ever held back
Flagged_Never(db, key) == FALSE

\* server.js:153  debounce[key]
Flagged(db, key) == key \in db

\* server.js:155-158  the two timers of one accepted event
Schedule(tm, p, b) ==
    tm \o << [kind |-> "clear", path |-> p, left |-> FlagWindow(b)],
             [kind |-> "settle", path |-> p, left |-> SettleDelay(b)] >>

\* server.js:148-159  the fs.watch callback for one raw event on path p
Callback(p, event) ==
    LET h == HistOf(hist, p)
        go == Watched(event, build) /\ ~Flagged(debounce, p)
    IN  /\ nEvents < MaxEvents
        /\ nEvents' = nEvents + 1
        /\ IF go
           THEN /\ debounce' = debounce \cup {p}
                /\ timers' = Schedule(timers, p, build)
           ELSE UNCHANGED <<debounce, timers>>
        /\ hist' = Note(hist, p, [raised |-> h.raised + 1,
                                  flagged |-> h.flagged + (IF go THEN 1 ELSE 0)])

\* server.js:149  a raw event that carries no file name
NullEvent ==
    /\ ~crashed
    /\ nEvents < MaxEvents
    /\ nEvents' = nEvents + 1
    /\ UNCHANGED <<build, codec, storeVars, busVars, resp, pipeVars, files, debounce, timers, hist, handled>>

\* a writer creates a file in a watched directory and writes all of it at
\* once (whole) or only the beginning
CreateFile(d, whole) ==
    LET p == PathOf(d.dir, d.name)
    IN  /\ ~crashed
        /\ ~Exists(p)
        /\ whole \/ d.partial # d.full
        /\ files' = Put(p, [kind |-> "file", content |-> IF whole THEN d.full ELSE d.partial,
                            full |-> d.full, done |-> whole, gen |-> GenOf(p) + 1])
        /\ Callback(p, "rename")
        /\ UNCHANGED <<build, codec, storeVars, busVars, resp, pipeVars, handled>>

\* the writer writes the rest of the file
FinishWrite(p) ==
    /\ ~crashed
    /\ IsFile(p) /\ ~files[p].done
    /\ files' = [files EXCEPT ![p].content = files[p].full, ![p].done = TRUE]
    /\ Callback(p, "change")
    /\ UNCHANGED <<build, codec, storeVars, busVars, resp, pipeVars, handled>>

\* one more raw event for something that already happened to the path
Repeat(p, event) ==
    /\ ~crashed
    /\ p \in DOMAIN files
    /\ Callback(p, event)
    /\ UNCHANGED <<build, codec, storeVars, busVars, resp, pipeVars, handled, files>>

DeleteFile(p) ==
    /\ ~crashed
    /\ Exists(p)
    /\ files' = [files EXCEPT ![p].kind = "gone"]
    /\ Callback(p, "rename")
    /\ UNCHANGED <<build, codec, storeVars, busVars, resp, pipeVars, handled>>

\* a subdirectory appears in a watched directory
MakeDir(d) ==
    LET p == PathOf(d.dir, d.name)
    IN  /\ ~crashed
        /\ ~Exists(p)
        /\ files' = Put(p, [kind |-> "dir", content |-> Text(<<>>), full |-> Text(<<>>),
                            done |-> TRUE, gen |-> GenOf(p) + 1])
        /\ Callback(p, "rename")
        /\ UNCHANGED <<build, codec, storeVars, busVars, resp, pipeVars, handled>>

\* the grain of time
Steps == {100}

Without(tm, i) == [j \in 1..(Len(tm) - 1) |-> IF j < i THEN tm[j] ELSE tm[j + 1]]

\* time passes, as long as no timer is overdue
Tick(dt) ==
    /\ ~crashed
    /\ timers # <<>>
    /\ \A i \in 1..Len(timers) : timers[i].left >= dt
    /\ timers' = [i \in 1..Len(timers) |-> [timers[i] EXCEPT !.left = @ - dt]]
    /\ UNCHANGED <<build, codec, storeVars, busVars, resp, pipeVars, files, debounce, nEvents, hist, handled>>

\* server.js:155  delete debounce[key]
FireClear(i) ==
    /\ ~crashed
    /\ i \in 1..Len(timers)
    /\ timers[i].kind = "clear" /\ timers[i].left = 0
    /\ debounce' = debounce \ {timers[i].path}
    /\ timers' = Without(timers, i)
    /\ UNCHANGED <<build, codec, storeVars, busVars, resp, pipeVars, files, nEvents, hist, handled>>

\* server.js:162-163  the handler of a watched directory
Handle(dir, name, content, io, ts) ==
    IF dir = "input" THEN handleFileTransform(name, content, io, ts)
    ELSE handleApiBridge(name, content, io)

\* server.js:90 and 122  the handler gets as far as reading the file
Reads(p) == Dispatch(p) /\ Supported(ExtOf(p[2]))

\* server.js:156-158  the settle timer of an accepted event fires
FireSettle(i, io, ts) ==
    /\ ~crashed
    /\ i \in 1..Len(timers)
    /\ timers[i].kind = "settle" /\ timers[i].left = 0
    /\ LET p == timers[i].path
           eff == IF Dispatch(p) THEN Handle(p[1], p[2], files[p].content, io, ts) ELSE NoEffect
       IN  /\ output' = eff.output
           /\ topics' = eff.topics
           /\ delivered' = eff.delivered
           /\ inflight' = eff.inflight
           /\ crashed' = eff.crashed
           /\ handled' = handled \cup
                  {[path |-> p, flag |-> HistOf(hist, p).flagged, seen |-> HistOf(hist, p).raised,
                    called |-> Dispatch(p), kind |-> KindOf(p), gen |-> GenOf(p),
                    done |-> files[p].done, saw |-> files[p].content,
                    readFailed |-> Reads(p) /\ io = "read"]}
    /\ timers' = Without(timers, i)
    /\ UNCHANGED <<build, codec, storeVars, subscribers, conns, resp, files, debounce, nEvents, hist>>

\* server.js:131-137  a request of the bridge reaches POST /api/transactions
\* and the answer comes back; express.json() turns away a body that is neither
\* an object nor an array, and the JSON.parse of that answer (line 135) throws
BridgeAnswer(i, ts) ==
    /\ ~crashed
    /\ i \in 1..Len(inflight)
    /\ LET body == inflight[i].body
           txn == NewTxn(Len(transactions), body[2], ts)
       IN  IF body[1] = "obj"
           THEN /\ transactions' = Append(transactions, txn)
                /\ resp' = [NoResp EXCEPT !.op = "submit", !.code = 200,
                                          !.fields = {"status", "message", "transaction"},
                                          !.txns = <<txn>>]
                /\ crashed' = FALSE
           ELSE /\ transactions' = transactions
                /\ resp' = [NoResp EXCEPT !.op = "submit", !.code = 400]
                /\ crashed' = TRUE
    /\ inflight' = Without(inflight, i)
    /\ UNCHANGED <<build, codec, exports, busVars, watchVars, output>>

\* server.js:138  a request of the bridge fails on the way
BridgeError(i) ==
    /\ ~crashed
    /\ i \in 1..Len(inflight)
    /\ inflight' = Without(inflight, i)
    /\ UNCHANGED <<build, codec, storeVars, busVars, watchVars, resp, output, crashed>>

---------------------------------------------------------------------------
(* Record Codec: a RecordSet serialized and parsed back *)

NoCodec == [op |-> "none", records |-> <<>>, text |-> <<>>, back |-> <<>>]

\* field lists and values of the RecordSets tried: every record of a set has
\* the same fields, every value is text without , & < >
KeyLists     == {<<<<"a">>>>, <<<<"a">>, <<"b">>>>}
SampleValues == {<<>>, <<"1">>, <<" ", "1">>}

RecordsOver(ks) ==
    {[i \in 1..Len(ks) |-> Pair(ks[i], StrV(f[i]))] : f \in [1..Len(ks) -> SampleValues]}

RecordSets ==
    UNION {[1..n -> RecordsOver(ks)] : n \in 0..MaxRecords, ks \in KeyLists}

\* server.js:42-48
SerializeCsv ==
    /\ codec.op = "input"
    /\ codec' = [codec EXCEPT !.op = "csv", !.text = recordsToCsv(codec.records)]
    /\ UNCHANGED <<build, storeVars, busVars, watchVars, pipeVars, resp>>

\* server.js:30-40
ParseCsv ==
    /\ codec.op = "csv"
    /\ codec' = [codec EXCEPT !.op = "csvBack", !.back = csvToRecords(codec.text, build)]
    /\ UNCHANGED <<build, storeVars, busVars, watchVars, pipeVars, resp>>

\* server.js:50-59
SerializeXml ==
    /\ codec.op = "input"
    /\ codec' = [codec EXCEPT !.op = "xml", !.text = recordsToXml(codec.records)]
    /\ UNCHANGED <<build, storeVars, busVars, watchVars, pipeVars, resp>>

\* server.js:63-75
ParseXml ==
    /\ codec.op = "xml"
    /\ codec' = [codec EXCEPT !.op = "xmlBack", !.back = xmlToRecords(codec.text)]
    /\ UNCHANGED <<build, storeVars, busVars, watchVars, pipeVars, resp>>

---------------------------------------------------------------------------
(* The system *)

Init ==
    /\ build = "demo"
    /\ codec = NoCodec
    /\ files = <<>>
    /\ debounce = {}
    /\ timers = <<>>
    /\ output = <<>>
    /\ inflight = <<>>
    /\ crashed = FALSE
    /\ nEvents = 0
    /\ hist = <<>>
    /\ handled = {}
    /\ transactions = <<>>
    /\ exports = <<>>
    /\ topics = <<>>
    /\ subscribers = <<>>
    /\ conns = <<>>
    /\ delivered = <<>>
    /\ resp = NoResp

NextStore ==
    \/ \E body \in Bodies, ts \in Clock : PostTransaction(body, ts)
    \/ GetTransactions
    \/ \E q \in QueryFormats, ts \in Clock : PostExport(q, ts)

\* the six operations of the REST API on one store and one topic
NextApi ==
    \/ \E body \in Bodies, ts \in PublishClock : PostTransaction(body, ts)
    \/ GetTransactions
    \/ \E ts \in PublishClock : PostExport("csv", ts)
    \/ \E message \in Payloads, ts \in PublishClock : PostPublish("orders", message, ts)
    \/ \E accept \in Accepts : GetSubscribe("orders", accept)
    \/ \E c \in 1..MaxConns : OnClose(c)

NextCodec == SerializeCsv \/ ParseCsv \/ SerializeXml \/ ParseXml

\* submit and list alone, with every kind of body
NextSubmit ==
    \/ \E body \in Bodies \cup StampedBodies, ts \in Clock : PostTransaction(body, ts)
    \/ GetTransactions

NextBus ==
    \/ \E topic \in TopicNames, message \in Payloads, ts \in PublishClock : PostPublish(topic, message, ts)
    \/ \E topic \in TopicNames, accept \in Accepts : GetSubscribe(topic, accept)
    \/ \E c \in 1..MaxConns : OnClose(c)
    \/ GetTopics

NextTimers ==
    \/ \E dt \in Steps : Tick(dt)
    \/ \E i \in 1..Len(timers) : FireClear(i)
    \/ \E i \in 1..Len(timers), io \in IoFaults, ts \in PublishClock : FireSettle(i, io, ts)

NextBridge ==
    \/ \E i \in 1..Len(inflight), ts \in PublishClock : BridgeAnswer(i, ts)
    \/ \E i \in 1..Len(inflight) : BridgeError(i)

\* the store, the bus and the transform handler side by side
NextStoreBusPipe ==
    \/ \E body \in {b \in Bodies : ~HasKey(b, kId)}, ts \in PublishClock : PostTransaction(body, ts)
    \/ GetTransactions
    \/ \E ts \in PublishClock : PostExport("json", ts)
    \/ \E message \in Payloads, ts \in PublishClock : PostPublish("orders", message, ts)
    \/ GetSubscribe("file-transforms", "text/event-stream")
    \/ \E c \in 1..MaxConns : OnClose(c)
    \/ \E d \in WatchDrops : CreateFile(d, TRUE)
    \/ NextTimers

\* one file, any sequence of raw events
NextWatch ==
    \/ \E d \in WatchDrops, whole \in BOOLEAN : CreateFile(d, whole)
    \/ \E p \in DOMAIN files : FinishWrite(p)
    \/ \E p \in DOMAIN files, event \in EventTypes : Repeat(p, event)
    \/ \E p \in DOMAIN files : DeleteFile(p)
    \/ \E d \in WatchDrops : MakeDir(d)
    \/ NullEvent
    \/ NextTimers

\* files of every kind, each written once, one after the other: a file is
\* dropped when no timer of an earlier one is pending
NextPipe ==
    \/ \E d \in PipeDrops, whole \in BOOLEAN :
          /\ Cardinality(DOMAIN files) < MaxDrops
          /\ timers = <<>>
          /\ CreateFile(d, whole)
    \/ \E p \in DOMAIN files : FinishWrite(p)
    \/ NextTimers

\* the transform handler while clients subscribe to its topic and leave
NextPipeBus ==
    \/ NextPipe
    \/ \E accept \in Accepts : GetSubscribe("file-transforms", accept)
    \/ \E c \in 1..MaxConns : OnClose(c)

\* both watchers at work: a file of the same name in each directory, more
\* raw events for either, the timers and the bridge's requests
NextTwoDirs ==
    \/ \E d \in TwinDrops : CreateFile(d, TRUE)
    \/ \E p \in DOMAIN files, event \in EventTypes : Repeat(p, event)
    \/ NextTimers
    \/ NextBridge

\* the same for the bridge directory, with the requests it sends: a file is
\* dropped when no timer is pending and no request is in flight, and a
\* request to localhost is answered or fails before the clock moves on
NextBridgeFiles ==
    \/ \E d \in BridgeDrops, whole \in BOOLEAN :
          /\ Cardinality(DOMAIN files) < MaxDrops
          /\ timers = <<>>
          /\ inflight = <<>>
          /\ CreateFile(d, whole)
    \/ \E p \in DOMAIN files : FinishWrite(p)
    \/ \E dt \in Steps : inflight = <<>> /\ Tick(dt)
    \/ \E i \in 1..Len(timers) : FireClear(i)
    \/ \E i \in 1..Len(timers), io \in IoFaults, ts \in PublishClock : FireSettle(i, io, ts)
    \/ NextBridge

Next ==
    \/ NextCodec \/ NextApi \/ NextStoreBusPipe \/ NextStore \/ NextSubmit \/ NextBus
    \/ NextWatch \/ NextTwoDirs \/ NextPipe \/ NextBridgeFiles

Spec == Init /\ [][Next]_vars

InitUnnamed ==
    /\ build = "unnamed"
    /\ codec = NoCodec
    /\ files = <<>>
    /\ debounce = {}
    /\ timers = <<>>
    /\ output = <<>>
    /\ inflight = <<>>
    /\ crashed = FALSE
    /\ nEvents = 0
    /\ hist = <<>>
    /\ handled = {}
    /\ transactions = <<>>
    /\ exports = <<>>
    /\ topics = <<>>
    /\ subscribers = <<>>
    /\ conns = <<>>
    /\ delivered = <<>>
    /\ resp = NoResp

\* the watcher of src/demo/server.js
SpecWatch == Init /\ [][NextWatch]_vars

\* the event loop runs a timer that is due
DueTimerFires ==
    /\ ~crashed
    /\ \E i \in 1..Len(timers) : timers[i].left = 0 /\ timers' = Without(timers, i)

\* the watcher of src/demo/server.js, where time passes and due timers fire
SpecWatchLive ==
    SpecWatch /\ WF_vars(\E dt \in Steps : Tick(dt)) /\ WF_timers(DueTimerFires)

\* both watchers of src/demo/server.js
SpecTwoDirs == Init /\ [][NextTwoDirs]_vars

\* the watcher of either copy of the server
SpecWatchAny == (Init \/ InitUnnamed) /\ [][NextWatch]_vars

\* the transform handler of src/demo/server.js
SpecPipe == Init /\ [][NextPipe]_vars

\* the transform handler of src/demo/server.js and the subscribers of its topic
SpecPipeBus == Init /\ [][NextPipeBus]_vars

\* the bridge of src/demo/server.js
SpecBridge == Init /\ [][NextBridgeFiles]_vars

\* the bridge, where every request sent is answered or fails in the end
SpecBridgeLive == SpecBridge /\ WF_vars(NextBridge)

\* the server idle, a RecordSet handed to the codec
InitCodec ==
    /\ build = "demo"
    /\ codec \in {[NoCodec EXCEPT !.op = "input", !.records = rs] : rs \in RecordSets}
    /\ files = <<>>
    /\ debounce = {}
    /\ timers = <<>>
    /\ output = <<>>
    /\ inflight = <<>>
    /\ crashed = FALSE
    /\ nEvents = 0
    /\ hist = <<>>
    /\ handled = {}
    /\ transactions = <<>>
    /\ exports = <<>>
    /\ topics = <<>>
    /\ subscribers = <<>>
    /\ conns = <<>>
    /\ delivered = <<>>
    /\ resp = NoResp

SpecCodec == InitCodec /\ [][NextCodec]_vars

SpecApi == Init /\ [][NextApi]_vars

SpecStoreBusPipe == Init /\ [][NextStoreBusPipe]_vars

SpecStore == Init /\ [][NextStore]_vars

SpecSubmit == Init /\ [][NextSubmit]_vars

SpecBus == Init /\ [][NextBus]_vars

---------------------------------------------------------------------------
(* Transaction store and event bus: the claims *)

\* C1: the transaction stored at position i (1-based, insertion order) has
\* the identifier i, whatever fields the submitted Record carries.
C1_IdIsPosition ==
    \A i \in 1..Len(transactions) : Get(transactions[i], kId) = NumV(i)

\* C2: in every topic the message at index i (0-based) has offset i, and a
\* publish answers with the offset of the message it appended, which is the
\* number of messages published to that topic before it.
C2_OffsetsGapFree ==
    /\ \A t \in DOMAIN topics :
          \A i \in 1..Len(topics[t]) : topics[t][i].offset = i - 1
    /\ (resp.op = "publish" /\ resp.code = 200) =>
          /\ resp.topic \in DOMAIN topics
          /\ resp.offset = Len(topics[resp.topic]) - 1

C2_Witness ==
    /\ resp.op = "publish" /\ resp.code = 200 /\ resp.offset = 1
    /\ \E t \in DOMAIN topics : t # resp.topic /\ Len(topics[t]) >= 1
    /\ Len(conns) >= 1

OpenStream(c) == conns[c].mode = "sse" /\ conns[c].open

\* C3: what a connected streaming subscriber has been sent is the whole log
\* of its topic: the history at subscription time, then every later
\* message, in order, none missing and none twice.
C3_StreamIsWholeLog ==
    \A c \in 1..Len(conns) :
        OpenStream(c) =>
            /\ conns[c].topic \in DOMAIN topics
            /\ delivered[c] = topics[conns[c].topic]

\* the first request polled one message, so the second subscribed when the
\* log already held one; it has the history and a live message
C3_Witness ==
    /\ Len(conns) = 2
    /\ conns[1].mode = "poll" /\ Len(delivered[1]) = 1
    /\ OpenStream(2) /\ conns[2].topic = conns[1].topic
    /\ Len(delivered[2]) = 2

\* C4: publish creates the topic if absent, appends exactly one message,
\* writes it once to every connection of the topic's subscriber list in the
\* same step, and returns it.
C4_PublishAppendsAndNotifies ==
    [][\A topic \in TopicNames, message \in Payloads, ts \in PublishClock :
          PostPublish(topic, message, ts) =>
             /\ topic \in DOMAIN topics'
             /\ Len(topics'[topic]) = Len(Log(topics, topic)) + 1
             /\ SubSeq(topics'[topic], 1, Len(topics'[topic]) - 1) = Log(topics, topic)
             /\ LET msg == topics'[topic][Len(topics'[topic])]
                IN  /\ msg.data = message
                    /\ resp'.code = 200 /\ resp'.offset = msg.offset
                    /\ \A c \in 1..Len(conns) :
                          delivered'[c] =
                             IF c \in {SubscribersOf(subscribers, topic)[i] :
                                          i \in 1..Len(SubscribersOf(subscribers, topic))}
                             THEN Append(delivered[c], msg)
                             ELSE delivered[c]]_vars

StreamsOn(t) == {c \in 1..Len(conns) : OpenStream(c) /\ conns[c].topic = t}

Members(list) == {list[i] : i \in 1..Len(list)}

\* C5: the subscriber list of a topic holds exactly the streaming
\* connections to it that have not closed, each once; a close removes that
\* connection only, and nothing is written to a closed connection.
C5_ListIsOpenStreams ==
    \A t \in TopicNames :
        /\ Members(SubscribersOf(subscribers, t)) = StreamsOn(t)
        /\ Len(SubscribersOf(subscribers, t)) = Cardinality(StreamsOn(t))

C5_CloseRemovesOne ==
    /\ []C5_ListIsOpenStreams
    /\ [][/\ \A c \in 1..Len(conns) :
                OnClose(c) =>
                   \A t \in TopicNames :
                      Members(SubscribersOf(subscribers', t)) =
                         Members(SubscribersOf(subscribers, t)) \ {c}
          /\ \A c \in 1..Len(conns) :
                ~conns[c].open => delivered'[c] = delivered[c]]_vars

\* a stream was closed after one message; a second stream on the same topic
\* stayed and got the next message too
C5_Witness ==
    \E c, d \in 1..Len(conns) :
        /\ conns[c].mode = "sse" /\ ~conns[c].open
        /\ OpenStream(d) /\ conns[d].topic = conns[c].topic
        /\ Len(delivered[c]) = 1 /\ Len(delivered[d]) = 2

C7_TopicsExistOnceUsed ==
    [][/\ DOMAIN topics \subseteq DOMAIN topics'
       /\ \A topic \in TopicNames, accept \in Accepts :
             GetSubscribe(topic, accept) =>
                /\ topic \in DOMAIN topics'
                /\ topic \notin DOMAIN topics => topics'[topic] = <<>>
       /\ \A topic \in TopicNames, message \in Payloads, ts \in PublishClock :
             PostPublish(topic, message, ts) => topic \in DOMAIN topics'
       /\ GetTopics => resp'.summary = {<<t, Len(topics[t])>> : t \in DOMAIN topics}]_vars

---------------------------------------------------------------------------
(* Transaction Store: claims, continued *)

\* how many times pat occurs in the text cs
CountOf(cs, pat) == Cardinality({i \in 1..Len(cs) : MatchAt(cs, i, pat, FALSE)})

\* the export file content is the serialization of txns, one row or item or
\* element per transaction, in the order of txns
HoldsAll(content, format, txns) ==
    IF format = "json"
    THEN content = JsonText(ObjArr(txns)) /\ Len(content[2][2]) = Len(txns)
    ELSE IF format = "csv"
    THEN /\ content = Text(recordsToCsv(txns))
         /\ txns # <<>> => CountOf(content[2], <<"\n">>) = Len(txns)
    ELSE /\ content = Text(recordsToXml(txns))
         /\ CountOf(content[2], OpenTag(itemTag)) = Len(txns)

\* C15: an export with a format of {csv, json, xml} leaves the store as it
\* is, writes exactly one file, which holds every stored transaction in
\* insertion order, and returns the store's length as count.
C15_ExportWritesWholeStore ==
    [][resp'.op = "export" /\ resp'.code = 200 /\ (resp' # resp \/ exports' # exports)
          => /\ transactions' = transactions
             /\ DOMAIN exports' = DOMAIN exports \cup {resp'.file}
             /\ \A f \in DOMAIN exports : f # resp'.file => exports'[f] = exports[f]
             /\ resp'.file[3] \in {"csv", "json", "xml"}
             /\ HoldsAll(exports'[resp'.file], resp'.file[3], transactions)
             /\ resp'.count = Len(transactions)]_vars

\* a CSV export of a store of two transactions
C15_Witness ==
    /\ resp.op = "export" /\ resp.code = 200 /\ resp.count = 2
    /\ Len(transactions) = 2
    /\ resp.file[3] = "csv" /\ resp.file \in DOMAIN exports

\* the request asks for a format that is none of csv, json, xml
OutsideFormats(q) == q \in ListFormats \/ ExportFormat(q) \notin {"csv", "json", "xml"}

\* C16: an export request whose format is outside {csv, json, xml} is
\* answered with a client error (4xx) and changes nothing: no export file,
\* the store, the topic logs and the subscriber sets as before.
C16_BadFormatIsClientError ==
    [][\A q \in QueryFormats, ts \in Clock :
          OutsideFormats(q) /\ PostExport(q, ts)
             => /\ resp'.op = "export" /\ resp'.code \in 400..499
                /\ exports' = exports /\ transactions' = transactions
                /\ topics' = topics /\ subscribers' = subscribers]_vars

\* C17: every response body the API sends has a field named status (a
\* handler that threw sends no body of its own and is left aside).
C17_EveryBodyHasStatus ==
    resp.op # "none" /\ resp.code # 500 => "status" \in resp.fields

\* C18, submit: the stored transaction is the last of the store, is the one
\* returned, holds every submitted field with its submitted value, has the
\* next sequential identifier and the receipt timestamp.
C18_SubmitStoresRecord ==
    [][\A body \in Bodies \cup StampedBodies, ts \in Clock :
          PostTransaction(body, ts)
             => LET t == transactions'[Len(transactions')]
                IN  /\ Len(transactions') = Len(transactions) + 1
                    /\ resp'.op = "submit" /\ resp'.txns = <<t>>
                    /\ \A i \in 1..Len(body) :
                          HasKey(t, body[i].k) /\ Get(t, body[i].k) = body[i].v
                    /\ HasKey(t, kId) /\ Get(t, kId) = NumV(Len(transactions) + 1)
                    /\ HasKey(t, kReceivedAt) /\ Get(t, kReceivedAt) = StrV(IsoString(ts))]_vars

\* C18, list: the reply holds the whole store in insertion order and its
\* length as count.
C18_ListReturnsStore ==
    [][GetTransactions => resp'.txns = transactions /\ resp'.count = Len(transactions)]_vars

\* C18: submit stores the submitted fields unchanged with the identifier and
\* a receipt timestamp and returns the stored transaction; list returns every
\* stored transaction in insertion order with count the number of submissions.
C18_SubmitThenList == C18_SubmitStoresRecord /\ C18_ListReturnsStore

\* the sequence a is the beginning of the sequence b, element for element
IsPrefix(a, b) == Len(a) <= Len(b) /\ SubSeq(b, 1, Len(a)) = a

\* C20: the store and every topic log only grow at the end: in every step
\* the old store is a prefix of the new one, every topic stays, and its old
\* log is a prefix of its new log, so stored elements never change (step by
\* step, hence between any earlier and any later state).
C20_AppendOnly ==
    [][/\ IsPrefix(transactions, transactions')
       /\ \A t \in DOMAIN topics :
             t \in DOMAIN topics' /\ IsPrefix(topics[t], topics'[t])]_vars

\* a store and a topic log that grew twice, read by a list, an export or a
\* poll in between or after
C20_Witness ==
    /\ Len(transactions) = 2
    /\ \E t \in DOMAIN topics : Len(topics[t]) = 2
    /\ conns # <<>>
    /\ exports # <<>>

---------------------------------------------------------------------------
(* Directory Watcher: claims *)

Called(p, g) == {e \in handled : e.called /\ e.path = p /\ e.gen = g}

\* C8: the handler is invoked exactly once for each new file written into a
\* watched directory, however many raw events the creation raises and however
\* long the writer takes -- here the half that a finite run can break: the
\* handler is never invoked a second time for the same file.
C8_OncePerNewFile ==
    \A p \in DOMAIN files : \A g \in 1..files[p].gen : Cardinality(Called(p, g)) <= 1

\* the settle timers of path p that are still pending
Settling(p) == {i \in 1..Len(timers) : timers[i].kind = "settle" /\ timers[i].path = p}

\* the settle timers of path p that fired in the flag window it is in now
Settled(p) == {e \in handled : e.path = p /\ e.flag = HistOf(hist, p).flagged}

\* this step is the fs.watch callback for a raw event on path p
RawEvent(p) == HistOf(hist', p).raised = HistOf(hist, p).raised + 1

\* C9 as stated: a burst of raw events for a path, all within the settle
\* window of the first, ends in exactly one handler invocation: whenever the
\* settle timer of a burst has fired, the handler was called.
C9_BurstGivesOneCall == \A e \in handled : e.called

\* C9, amended: while the flag of a path is set there is exactly one settle
\* timer for the burst, pending or fired; when it fired, the handler was called
\* if and only if the path was a regular file then; and a raw event that
\* arrives while the flag is set schedules no timer and changes no state of
\* the server.
C9_OneSettlePerBurst ==
    /\ \A p \in debounce : Cardinality(Settling(p)) + Cardinality(Settled(p)) = 1
    /\ \A e \in handled : e.called <=> e.kind = "file"

C9_BurstCollapses ==
    /\ []C9_OneSettlePerBurst
    /\ [][\A p \in DOMAIN hist' :
            RawEvent(p) /\ p \in debounce
                => UNCHANGED <<debounce, timers, handled, storeVars, busVars, pipeVars, resp>>]_vars

\* three raw events arrived before the first settle timer of the path fired,
\* and the handler was called once
C9_Witness ==
    \E e \in handled :
        /\ e.called /\ e.flag = 1 /\ e.seen >= 3
        /\ Cardinality({f \in handled : f.path = e.path /\ f.called}) = 1

---------------------------------------------------------------------------
(* Transform Pipeline: claims *)

\* the file a handler saw has an extension it does not know, or was read and
\* did not parse, or parsed to no records
Rejected(e) ==
    LET ext == ToLower(e.path[2].ext)
        parsed == parseFile(e.saw, ext, build)
    IN  \/ ext \notin {dotCsv, dotJson, dotXml}
        \/ /\ ~e.readFailed
           /\ \/ parsed.threw
              \/ parsed.val = Null
              \/ parsed.val = Arr(<<>>)

\* C10: when the transform handler is called on a file with an unrecognized
\* extension, on a file that parses to zero records or on a file whose parsing
\* fails, no output file is written, no message is published or delivered,
\* and no exception leaves the handler.
C10_RejectedFileNoSideEffects ==
    [][\A e \in handled' \ handled :
          e.called /\ e.path[1] = "input" /\ Rejected(e)
              => /\ output' = output
                 /\ topics' = topics
                 /\ delivered' = delivered
                 /\ crashed' = FALSE]_vars

\* the handler was called on one file twice: while it held a cut-off JSON text
\* and when it held an empty array; nothing was written or published
C10_Witness ==
    \E e1, e2 \in handled :
        /\ e1.path = e2.path /\ e1.path[1] = "input"
        /\ e1.called /\ e2.called
        /\ parseFile(e1.saw, ToLower(e1.path[2].ext), build).threw
        /\ e2.saw = jsonEmpty
        /\ output = <<>> /\ topics = <<>> /\ ~crashed

\* the handler was called on a file of a supported format that was read and
\* parsed to a list of records
Parsed(e) ==
    LET ext == ToLower(e.path[2].ext)
        parsed == parseFile(e.saw, ext, build)
    IN  /\ e.called /\ ~e.readFailed
        /\ ext \in {dotCsv, dotJson, dotXml}
        /\ ~parsed.threw
        /\ IsRecordArray(parsed.val)

RecordsSeen(e) == Records(parseFile(e.saw, ToLower(e.path[2].ext), build).val)

\* C11: when the transform handler is called on a file of a supported format
\* that parses to N >= 1 records and no write fails, it writes exactly the two
\* files <base name>.<other format>, none for the source format, and appends
\* exactly one message to file-transforms that carries the source file name
\* and recordCount = N; every open stream on file-transforms is sent it.
C11_TransformWritesAndPublishes ==
    [][\A e \in handled' \ handled :
          e.path[1] = "input" /\ Parsed(e) /\ Len(RecordsSeen(e)) >= 1 /\ ~crashed'
              => LET name == e.path[2]
                     others == {dotCsv, dotJson, dotXml} \ {ToLower(name.ext)}
                     log == Log(topics, "file-transforms")
                     msg == topics'["file-transforms"][Len(log) + 1]
                 IN  /\ \A t \in others : name.stem \o t \in DOMAIN output'
                     /\ \A f \in DOMAIN output' :
                           \/ (f \in DOMAIN output /\ output'[f] = output[f])
                           \/ f \in {name.stem \o t : t \in others}
                     /\ "file-transforms" \in DOMAIN topics'
                     /\ topics'["file-transforms"] = Append(log, msg)
                     /\ msg.data[2].source = name.stem \o name.ext
                     /\ msg.data[2].recordCount = NumV(Len(RecordsSeen(e)))
                     /\ \A c \in 1..Len(conns) :
                           delivered'[c] = IF OpenStream(c) /\ conns[c].topic = "file-transforms"
                                           THEN Append(delivered[c], msg)
                                           ELSE delivered[c]]_vars

\* C12: the two output writes of a transform are independent: when the
\* handler is called for the first time on a file that parses to N >= 1
\* records and the write of one target fails, the other target is still
\* written (at most one file-system call fails in a run of the handler).
C12_WritesAreIndependent ==
    [][\A e \in handled' \ handled :
          /\ e.path[1] = "input" /\ Parsed(e) /\ Len(RecordsSeen(e)) >= 1
          /\ \A f \in handled : f.path # e.path
          => \E t \in {dotCsv, dotJson, dotXml} \ {ToLower(e.path[2].ext)} :
                BaseName(e.path[2]) \o t \in DOMAIN output']_vars

\* C13: no parse failure and no failure to read or write a file during a
\* file-triggered transform crashes the process.
C13_ProcessSurvives == ~crashed

---------------------------------------------------------------------------
(* File-to-API Bridge: claims *)

\* the stored transaction t holds every field of the record r that the body
\* does not use for a name the server sets itself
HoldsFields(t, r) ==
    \A i \in 1..Len(r) : r[i].k \notin {kId, kReceivedAt} => HasKey(t, r[i].k) /\ Get(t, r[i].k) = r[i].v

\* C14, the call: the bridge handler, called on a file that parses to N
\* records, sends exactly one submit request per record, in order, and writes
\* no file.
C14_OneRequestPerRecord ==
    [][\A e \in handled' \ handled :
          e.path[1] = "api-bridge" /\ Parsed(e)
              => /\ Len(inflight') = Len(inflight) + Len(RecordsSeen(e))
                 /\ SubSeq(inflight', 1, Len(inflight)) = inflight
                 /\ \A i \in 1..Len(RecordsSeen(e)) :
                       inflight'[Len(inflight) + i].body = Obj(RecordsSeen(e)[i])
                 /\ output' = output
                 /\ transactions' = transactions
                 /\ crashed' = FALSE]_vars

\* C14, the deliveries: a request leaves the ones in flight either failed,
\* with the store unchanged, or delivered, with its record appended as one
\* transaction; the other requests stay in flight, and the store changes in
\* no other way.
C14_StoreGrowsPerDelivery ==
    [][/\ \A i \in 1..Len(inflight) :
             inflight' = Without(inflight, i)
                 => \/ transactions' = transactions
                    \/ /\ inflight[i].body[1] = "obj"
                       /\ Len(transactions') = Len(transactions) + 1
                       /\ SubSeq(transactions', 1, Len(transactions)) = transactions
                       /\ HoldsFields(transactions'[Len(transactions')], inflight[i].body[2])
       /\ transactions' # transactions
             => \E i \in 1..Len(inflight) : inflight' = Without(inflight, i)]_vars

---------------------------------------------------------------------------
(* Record Codec: claims *)

\* C19, delimited text: parsing the CSV serialization of a RecordSet with
\* uniform fields and values without , & < > gives back the RecordSet.
C19_CsvRoundTrip == codec.op = "csvBack" => codec.back = codec.records

\* C19, tagged markup: parsing the XML serialization of such a RecordSet
\* gives back the RecordSet.
C19_XmlRoundTrip == codec.op = "xmlBack" => codec.back = codec.records

\* C19: both round trips give back the original RecordSet, records and
\* fields in the original order, empty-string values included.
C19_RoundTrips == C19_CsvRoundTrip /\ C19_XmlRoundTrip

---------------------------------------------------------------------------
(* Directory Watcher: claims, continued *)

\* the paths raw events are raised for
WatchPaths == {PathOf(d.dir, d.name) : d \in WatchDrops}

\* the pending timers that clear the flag of path p
Clearing(p) == {i \in 1..Len(timers) : timers[i].kind = "clear" /\ timers[i].path = p}

\* C21, the window: a flag that is set has exactly one clear timer; the timer
\* starts with the whole flag window when the flag is set, the flag goes
\* only when that timer is due, and a raw event for a path whose flag is not
\* set sets it and schedules a new settle timer.
C21_FlagHasClearTimer == \A p \in debounce : Cardinality(Clearing(p)) = 1

C21_WindowIsFixed ==
    [][\A p \in WatchPaths :
          /\ p \notin debounce /\ p \in debounce'
                => \E i \in Clearing(p)' : timers'[i].left = FlagWindow(build)
          /\ p \in debounce /\ p \notin debounce'
                => \E i \in Clearing(p) : timers[i].left = 0
          /\ RawEvent(p) /\ p \notin debounce
                => /\ p \in debounce'
                   /\ Cardinality(Settling(p)') = Cardinality(Settling(p)) + 1]_vars

\* C21, progress: a flag that is set is cleared in the end, and a settle
\* timer that is pending fires in the end, whatever the handler did
C21_FlagClears == \A p \in WatchPaths : (p \in debounce) ~> (p \notin debounce)

C21_SettleFires == \A p \in WatchPaths : (Settling(p) # {}) ~> (Settling(p) = {})

\* C21: the debounce flag of a path is cleared a fixed window after it was
\* set, whether the handler was invoked, skipped or raised an error, and a
\* raw event after that sets the flag again and leads to a new handler
\* invocation if the path is a regular file then.
C21_FlagClearsAfterWindow ==
    /\ []C21_FlagHasClearTimer
    /\ C21_WindowIsFixed
    /\ C21_FlagClears
    /\ C21_SettleFires

\* the settle timers of path p that fired in its current flag window and
\* found no regular file
Skipped(p) ==
    {e \in handled : e.path = p /\ e.flag = HistOf(hist, p).flagged /\ e.kind \in {"gone", "dir"}}

\* C22, the skip: a settle timer that fires for a path that is gone or is a
\* directory calls no handler and raises no error: nothing is written,
\* published, delivered or sent, the process lives, the flag stays as it is.
C22_SkipIsSilent ==
    [][\A e \in handled' \ handled :
          e.kind \in {"gone", "dir"}
             => /\ ~e.called
                /\ crashed' = FALSE
                /\ UNCHANGED <<output, inflight, storeVars, busVars, resp, debounce>>]_vars

\* C22, afterwards: the flag of the skipped path is cleared in the end
C22_FlagClearsAfterSkip ==
    \A p \in WatchPaths : (Skipped(p) # {} /\ p \in debounce) ~> (p \notin debounce)

\* C22: when the settle delay of a path elapses and the path is gone or is a
\* directory, the handler is not invoked and no error is raised, and the
\* path's flag is still cleared afterwards.
C22_MissingPathIsSkipped == C22_SkipIsSilent /\ C22_FlagClearsAfterSkip

\* a settle timer found the file deleted, a later one found a directory of
\* the same name, and the flag is clear again
C22_Witness ==
    /\ ~crashed
    /\ \E e \in handled, f \in handled :
          /\ e.path = f.path /\ e.path \notin debounce
          /\ e.kind = "gone" /\ ~e.called
          /\ f.kind = "dir" /\ ~f.called

\* the two paths of the same file name, one per watched directory
TwinPaths == {PathOf(d.dir, d.name) : d \in TwinDrops}

\* C23, the flags: the flag of a path changes only by a raw event for that
\* path or by that path's own clear timer; a settle timer for a path is
\* scheduled only by a raw event for that path; and a raw event for a path
\* whose own flag is not set is never held back, whatever the flags of the
\* other directory.
C23_FlagsArePerPath ==
    [][\A q \in TwinPaths :
          /\ (q \in debounce') # (q \in debounce)
                => RawEvent(q) \/ Cardinality(Clearing(q)') < Cardinality(Clearing(q))
          /\ Cardinality(Settling(q)') > Cardinality(Settling(q)) => RawEvent(q)
          /\ HistOf(hist', q) # HistOf(hist, q) => RawEvent(q)
          /\ RawEvent(q) /\ q \notin debounce
                => /\ q \in debounce'
                   /\ Cardinality(Settling(q)') = Cardinality(Settling(q)) + 1]_vars

\* C23, the handlers: a settle timer that fires for a path is that path's own
\* (the other path's timers stay), a path of input/ goes to the transform
\* handler, which sends no request, and a path of api-bridge/ goes to the
\* bridge, which writes no file and publishes nothing.
C23_OwnHandlerOnly ==
    [][\A e \in handled' \ handled :
          /\ \A q \in TwinPaths \ {e.path} :
                Cardinality(Settling(q)') = Cardinality(Settling(q))
          /\ e.path[1] = "input" /\ e.called /\ ~crashed' => inflight' = inflight /\ output' # <<>>
          /\ e.path[1] = "api-bridge" /\ e.called /\ ~crashed'
                => output' = output /\ topics' = topics /\ inflight' # inflight]_vars

\* C23: watchers on different directories never share debounce state, even
\* for files of the same name, and each path goes to its own directory's
\* handler.
C23_WatchersAreIndependent == C23_FlagsArePerPath /\ C23_OwnHandlerOnly

\* both files of the same name are flagged at once, and each was handled by
\* its own handler: converted files written and requests sent
C23_Witness ==
    /\ \A q \in TwinPaths : \E e \in handled : e.path = q /\ e.called
    /\ Cardinality(TwinPaths) = 2
    /\ TwinPaths \subseteq debounce
    /\ output # <<>>
    /\ Len(transactions) + Len(inflight) > 0

\* C24: for every path at most one settle timer is pending, a settle timer
\* is pending only while the path's flag is set, and no flag window of a
\* path has more than one settle timer, pending or fired: events of one
\* flag window never schedule two handler invocations.
C24_OneSettleTimerPerPath ==
    \A p \in DOMAIN hist :
        /\ Cardinality(Settling(p)) <= 1
        /\ Settling(p) # {} => p \in debounce
        /\ \A w \in 1..HistOf(hist, p).flagged :
              Cardinality({e \in handled : e.path = p /\ e.flag = w})
                 + (IF w = HistOf(hist, p).flagged THEN Cardinality(Settling(p)) ELSE 0) <= 1

\* the second flag window of a path: its settle timer is pending, the one of
\* the first window has fired
C24_Witness ==
    \E p \in DOMAIN hist :
        /\ HistOf(hist, p).flagged = 2
        /\ Cardinality(Settling(p)) = 1 /\ p \in debounce
        /\ \E e \in handled : e.path = p /\ e.flag = 1

---------------------------------------------------------------------------
(* Event bus and transaction store: frame claims *)

\* every topic but T has the log and the subscriber list it had
OthersUntouched(T) ==
    \A U \in (DOMAIN topics \cup DOMAIN topics' \cup
              DOMAIN subscribers \cup DOMAIN subscribers') \ {T} :
        /\ U \in DOMAIN topics' <=> U \in DOMAIN topics
        /\ Log(topics', U) = Log(topics, U)
        /\ U \in DOMAIN subscribers' <=> U \in DOMAIN subscribers
        /\ SubscribersOf(subscribers', U) = SubscribersOf(subscribers, U)

\* C25: publish to topic T appends to T's log only and writes to the
\* connections subscribed to T only; subscribe and disconnect on T change T's
\* subscriber list only; no connection of another topic receives anything.
C25_TopicsAreIsolated ==
    [][/\ \A T \in TopicNames, message \in Payloads, ts \in PublishClock :
             PostPublish(T, message, ts)
                => /\ OthersUntouched(T)
                   /\ subscribers' = subscribers
                   /\ \A c \in DOMAIN delivered :
                         conns[c].topic # T => delivered'[c] = delivered[c]
       /\ \A T \in TopicNames, accept \in Accepts :
             GetSubscribe(T, accept)
                => /\ OthersUntouched(T)
                   /\ Log(topics', T) = Log(topics, T)
                   /\ \A c \in DOMAIN delivered : delivered'[c] = delivered[c]
       /\ \A c \in DOMAIN conns :
             OnClose(c) => OthersUntouched(conns[c].topic) /\ topics' = topics]_vars

\* two open streams on two topics, each topic with a message, one stream
\* with a message delivered
C25_Witness ==
    \E c \in DOMAIN conns, d \in DOMAIN conns :
        /\ conns[c].open /\ conns[d].open /\ conns[c].topic # conns[d].topic
        /\ Log(topics, conns[c].topic) # <<>> /\ Log(topics, conns[d].topic) # <<>>
        /\ delivered[c] # <<>>

\* the event bus is as it was
BusUntouched == UNCHANGED <<topics, subscribers, conns, delivered>>

\* this step is a submit, a list or an export
StoreStep ==
    \/ transactions' # transactions
    \/ exports' # exports
    \/ resp' # resp /\ resp'.op \in {"submit", "list", "export"}

\* this step is a publish, a subscribe, a disconnect or a run of the settle
\* timer of a file of input/
BusOrTransformStep ==
    \/ topics' # topics \/ subscribers' # subscribers
    \/ conns' # conns \/ delivered' # delivered
    \/ resp' # resp /\ resp'.op \in {"publish", "subscribe", "stream"}
    \/ \E e \in handled' \ handled : e.path[1] = "input"

\* C26: submit, list and export leave every topic log and subscriber list
\* unchanged and deliver nothing; publish, subscribe, disconnect and the
\* file transform leave the transaction store unchanged.
C26_StoreAndBusAreSeparate ==
    [][/\ StoreStep => BusUntouched
       /\ BusOrTransformStep => transactions' = transactions /\ inflight' = inflight]_vars

\* a transaction stored and exported, a message published by a client and
\* one by the file transform, a stream connected
C26_Witness ==
    /\ Len(transactions) >= 1
    /\ exports # <<>>
    /\ conns # <<>>
    /\ Len(Log(topics, "orders")) >= 1
    /\ Len(Log(topics, "file-transforms")) >= 1

---------------------------------------------------------------------------
(* Transform Pipeline: claims, continued *)

\* the two converted files of the source file called name are in output/
BothWritten(out, name) ==
    \A t \in {Targets(ExtOf(name))[1], Targets(ExtOf(name))[2]} :
        BaseName(name) \o t \in DOMAIN out

\* the messages of the file-transforms topic
Notes == Log(topics, "file-transforms")

\* C27, every state: each message of file-transforms names a source file
\* whose two converted files are in output/.
C27_NoteHasItsFiles ==
    \A i \in 1..Len(Notes) :
        \E d \in PipeDrops :
            /\ Notes[i].data[2].source = d.name.stem \o d.name.ext
            /\ BothWritten(output, d.name)

\* C27, every run of the handler: a message is appended only by a run that
\* did not end in an exception and has both files written, and a run that
\* ends in an exception appends nothing.
C27_NoteComesLast ==
    [][/\ Log(topics', "file-transforms") # Notes
          => /\ \E e \in handled' \ handled : e.called /\ BothWritten(output', e.path[2])
             /\ ~crashed'
             /\ Len(Log(topics', "file-transforms")) = Len(Notes) + 1
       /\ crashed' => Log(topics', "file-transforms") = Notes]_vars

====
